---- MODULE Spec2Model ----
(***************************************************************************)
(* Session-token issuance and verification of the admin template: the      *)
(* Login, Logout and identity-lookup route handlers, the browser's cookie  *)
(* jar they act on, the client-side AuthProvider and the ProtectedRoute    *)
(* guard.                                                                  *)
(*                                                                         *)
(* Time is in seconds, the unit of the token's iat/exp claims and of the   *)
(* cookie's maxAge.  A signature is the symbolic MAC <key, signed claims>: *)
(* it verifies under a secret exactly when the key is that secret and the  *)
(* claims are the ones that were signed.                                   *)
(***************************************************************************)
EXTENDS Integers, Sequences, FiniteSets, TLC

\* ------------------------------------------------------------------ bounds

\* How many times the clock may advance in one behaviour.
MaxTicks == 3

\* ------------------------------------------------------- program constants

\* jwt.sign(..., { expiresIn: '1d' }): one day, in seconds.
ExpiresIn == 86400
\* maxAge: 60 * 60 * 24
CookieMaxAge == 86400

DefaultSecret == "your-secret-key"
LoginCookieName == "auth-token"
LogoutCookieName == "auth-token"
AuthCookieName == "auth-token"

\* The cookie names found in the repository: the handlers' and the guide's.
CookieNames == {"auth-token", "authToken"}

mockUsers ==
  << [id |-> "1", email |-> "admin@example.com", password |-> "admin123",
      name |-> "Admin User", role |-> "admin"] >>

\* --------------------------------------------------------------- JS values

JSUndefined == [t |-> "undefined"]
JSNull == [t |-> "null"]
JSString(s) == [t |-> "string", s |-> s]
JSNumber(n) == [t |-> "number", n |-> n]
JSBoolean(b) == [t |-> "boolean", b |-> b]
\* An object: its properties in insertion order, each <<key, value>>.
JSObject(props) == [t |-> "object", props |-> props]

\* What `!x` negates.
Truthy(x) ==
  CASE x.t = "undefined" -> FALSE
    [] x.t = "null" -> FALSE
    [] x.t = "string" -> x.s # ""
    [] x.t = "number" -> x.n # 0
    [] x.t = "boolean" -> x.b
    [] OTHER -> TRUE

\* ------------------------------------------------------------- Token Codec

Mac(key, claims) == [key |-> key, over |-> claims]

EmptyValue == [kind |-> "empty"]
Garbage == [kind |-> "garbage"]

\* jwt.sign(payload, secret, { expiresIn: '1d' }) at clock `now`.
jwtSign(payload, secret, now) ==
  LET claims == [id |-> payload.id, email |-> payload.email,
                 name |-> payload.name, role |-> payload.role,
                 iat |-> now, exp |-> now + ExpiresIn]
  IN  [kind |-> "jwt", claims |-> claims, sig |-> Mac(secret, claims)]

\* A mutant of jwtVerify: the expiry test is off by one (> for >=).
jwtVerify_LateExpiry(token, secret, now) ==
  IF token.kind # "jwt" THEN [ok |-> FALSE, err |-> "jwt malformed"]
  ELSE IF token.sig # Mac(secret, token.claims)
       THEN [ok |-> FALSE, err |-> "invalid signature"]
  ELSE IF now > token.claims.exp
       THEN [ok |-> FALSE, err |-> "jwt expired"]
  ELSE [ok |-> TRUE, claims |-> token.claims]

\* A mutant of jwtVerify: the payload is decoded, the signature not checked
\* (jwt.decode for jwt.verify).
jwtVerify_DecodeOnly(token, secret, now) ==
  IF token.kind # "jwt" THEN [ok |-> FALSE, err |-> "jwt malformed"]
  ELSE IF now >= token.claims.exp
       THEN [ok |-> FALSE, err |-> "jwt expired"]
  ELSE [ok |-> TRUE, claims |-> token.claims]

\* jwt.verify(token, secret) at clock `now`: the decoded payload, or the
\* error it throws (malformed, bad signature, expired: in that order).
jwtVerify(token, secret, now) ==
  IF token.kind # "jwt" THEN [ok |-> FALSE, err |-> "jwt malformed"]
  ELSE IF token.sig # Mac(secret, token.claims)
       THEN [ok |-> FALSE, err |-> "invalid signature"]
  ELSE IF now >= token.claims.exp
       THEN [ok |-> FALSE, err |-> "jwt expired"]
  ELSE [ok |-> TRUE, claims |-> token.claims]

\* process.env.JWT_SECRET || 'your-secret-key', in the Login handler.
signSecret(env) == IF Truthy(env) THEN env.s ELSE DefaultSecret

\* A mutant of verifySecret: another fallback than the one Login signs with.
verifySecret_OtherDefault(env) == IF Truthy(env) THEN env.s ELSE "secret"

\* process.env.JWT_SECRET || 'your-secret-key', in getUserFromRequest.
verifySecret(env) == IF Truthy(env) THEN env.s ELSE DefaultSecret

\* What a call yields when an exception leaves it.
Thrown == [thrown |-> TRUE]

\* A mutant of getUserFromRequest: the cookie is read under the name the
\* guide uses.
getUserFromRequest_OtherName(cookies, env, now) ==
  LET sent == cookies["authToken"] IN
  IF sent = {} \/ sent = {EmptyValue} THEN {}
  ELSE LET token == CHOOSE v \in sent : TRUE
           decoded == jwtVerify(token, verifySecret(env), now)
       IN  IF decoded.ok THEN {decoded.claims} ELSE {}

\* A mutant of getUserFromRequest: no try/catch, so what jwt.verify throws
\* leaves the function.
getUserFromRequest_NoCatch(cookies, env, now) ==
  LET sent == cookies[AuthCookieName] IN
  IF sent = {} \/ sent = {EmptyValue} THEN {}
  ELSE LET token == CHOOSE v \in sent : TRUE
           decoded == jwtVerify(token, verifySecret(env), now)
       IN  IF decoded.ok THEN {decoded.claims} ELSE {Thrown}

\* getUserFromRequest: the set holding the decoded user, empty for null.
\* `cookies` maps each cookie name to the set of its value (empty: not sent).
getUserFromRequest(cookies, env, now) ==
  LET sent == cookies[AuthCookieName] IN
  IF sent = {} \/ sent = {EmptyValue} THEN {}
  ELSE LET token == CHOOSE v \in sent : TRUE
           decoded == jwtVerify(token, verifySecret(env), now)
       IN  IF decoded.ok THEN {decoded.claims} ELSE {}

\* --------------------------------------------------- Auth Request Handlers

NoCookies == [n \in CookieNames |-> {}]

\* NextResponse.json(body, { status }), with the calls made on the way.
Response(status, body, setCookie, trace) ==
  [status |-> status, body |-> body, setCookie |-> setCookie, trace |-> trace]

\* A mutant of InternalError: the response tells where the handler failed.
InternalError_WithDetail(trace) ==
  Response(500, [error |-> "Error interno del servidor", at |-> trace], {}, trace)

\* The Login handler's catch block.
InternalError(trace) ==
  Response(500, [error |-> "Error interno del servidor"], {}, trace)

\* mockUsers.find(u => u.email === email && u.password === password):
\* the index of the first match, 0 for undefined.
findUser(email, password) ==
  LET hits == {i \in 1..Len(mockUsers) :
                 /\ JSString(mockUsers[i].email) = email
                 /\ JSString(mockUsers[i].password) = password}
  IN  IF hits = {} THEN 0 ELSE CHOOSE i \in hits : \A j \in hits : i <= j

\* A mutant of MissingFields: && for ||.
MissingFields_Both(email, password) == ~Truthy(email) /\ ~Truthy(password)

\* !email || !password
MissingFields(email, password) == ~Truthy(email) \/ ~Truthy(password)

\* A mutant of Authenticate: the user is looked up by email first, and an
\* unknown email is answered differently from a wrong password.
Authenticate_Enumerating(email, password, env, now) ==
  LET known == \E i \in 1..Len(mockUsers) : JSString(mockUsers[i].email) = email
      i == findUser(email, password)
      trace == <<"request.json", "mockUsers.find">>
  IN  IF ~known
      THEN Response(404, [error |-> "Usuario no encontrado"], {}, trace)
      ELSE IF i = 0
      THEN Response(401, [error |-> "Credenciales inválidas"], {}, trace)
      ELSE LET user == mockUsers[i]
               public == [id |-> user.id, email |-> user.email,
                          name |-> user.name, role |-> user.role]
               token == jwtSign(public, signSecret(env), now)
           IN  Response(200, [user |-> public],
                        {[name |-> LoginCookieName, value |-> token,
                          httpOnly |-> TRUE, path |-> "/",
                          maxAge |-> CookieMaxAge, sameSite |-> "strict"]},
                        trace \o <<"jwt.sign", "cookies.set">>)

\* A mutant of Authenticate: the failure response clears the session cookie.
Authenticate_ClearsOnFailure(email, password, env, now) ==
  LET i == findUser(email, password)
      trace == <<"request.json", "mockUsers.find">>
  IN  IF i = 0
      THEN Response(401, [error |-> "Credenciales inválidas"],
                    {[name |-> LoginCookieName, value |-> EmptyValue,
                      httpOnly |-> TRUE, path |-> "/",
                      expires |-> 0, sameSite |-> "strict"]},
                    trace \o <<"cookies.set">>)
      ELSE LET user == mockUsers[i]
               public == [id |-> user.id, email |-> user.email,
                          name |-> user.name, role |-> user.role]
               token == jwtSign(public, signSecret(env), now)
           IN  Response(200, [user |-> public],
                        {[name |-> LoginCookieName, value |-> token,
                          httpOnly |-> TRUE, path |-> "/",
                          maxAge |-> CookieMaxAge, sameSite |-> "strict"]},
                        trace \o <<"jwt.sign", "cookies.set">>)

\* A mutant of Authenticate: the matched entry is returned as it is stored,
\* password included.
Authenticate_ReturnsEntry(email, password, env, now) ==
  LET i == findUser(email, password)
      trace == <<"request.json", "mockUsers.find">>
  IN  IF i = 0
      THEN Response(401, [error |-> "Credenciales inválidas"], {}, trace)
      ELSE LET user == mockUsers[i]
               public == [id |-> user.id, email |-> user.email,
                          name |-> user.name, role |-> user.role]
               token == jwtSign(public, signSecret(env), now)
           IN  Response(200, [user |-> user],
                        {[name |-> LoginCookieName, value |-> token,
                          httpOnly |-> TRUE, path |-> "/",
                          maxAge |-> CookieMaxAge, sameSite |-> "strict"]},
                        trace \o <<"jwt.sign", "cookies.set">>)

\* The Login handler once both fields are present: look the pair up, answer
\* 401 or sign the token and set the cookie.
Authenticate(email, password, env, now) ==
  LET i == findUser(email, password)
      trace == <<"request.json", "mockUsers.find">>
  IN  IF i = 0
      THEN Response(401, [error |-> "Credenciales inválidas"], {}, trace)
      ELSE LET user == mockUsers[i]
               public == [id |-> user.id, email |-> user.email,
                          name |-> user.name, role |-> user.role]
               token == jwtSign(public, signSecret(env), now)
           IN  Response(200, [user |-> public],
                        {[name |-> LoginCookieName, value |-> token,
                          httpOnly |-> TRUE, path |-> "/",
                          maxAge |-> CookieMaxAge, sameSite |-> "strict"]},
                        trace \o <<"jwt.sign", "cookies.set">>)

\* body.<key> as the destructuring reads it: undefined on a primitive or
\* when the property is missing.
Property(body, key) ==
  IF body.t = "object" /\ \E i \in 1..Len(body.props) : body.props[i][1] = key
  THEN body.props[CHOOSE i \in 1..Len(body.props) : body.props[i][1] = key][2]
  ELSE JSUndefined

\* POST /api/auth/login.  `body` is what request.json() yields, or
\* [t |-> "invalid"] when it throws.
LoginPOST(body, env, now) ==
  IF body.t = "invalid" THEN InternalError(<<"request.json">>)
  ELSE IF body.t \in {"null", "undefined"}
       THEN InternalError(<<"request.json">>)   \* destructuring null throws
  ELSE LET email == Property(body, "email")
           password == Property(body, "password")
       IN  IF MissingFields(email, password)
           THEN Response(400, [error |-> "Email y contraseña son requeridos"],
                         {}, <<"request.json">>)
           ELSE Authenticate(email, password, env, now)

\* A mutant of the Logout handler: it clears the cookie under the name the
\* guide uses.
LogoutPOST_OtherCookie ==
  Response(200, [success |-> TRUE],
           {[name |-> "authToken", value |-> EmptyValue,
             httpOnly |-> TRUE, path |-> "/",
             expires |-> 0, sameSite |-> "strict"]},
           <<"cookies.set">>)

\* POST /api/auth/logout.
LogoutPOST ==
  Response(200, [success |-> TRUE],
           {[name |-> LogoutCookieName, value |-> EmptyValue,
             httpOnly |-> TRUE, path |-> "/",
             expires |-> 0, sameSite |-> "strict"]},
           <<"cookies.set">>)

\* A mutant of the lookup handler: a sliding session, every successful
\* lookup issues a fresh token and sets the cookie again.
MeGET_Refreshes(cookies, env, now) ==
  LET user == getUserFromRequest(cookies, env, now) IN
  IF user = {Thrown}
  THEN Response(500, [success |-> FALSE, message |-> "Internal server error"],
                {}, <<"getUserFromRequest">>)
  ELSE IF user = {}
  THEN Response(401, [success |-> FALSE, message |-> "Not authenticated"],
                {}, <<"getUserFromRequest">>)
  ELSE LET u == CHOOSE u \in user : TRUE IN
       Response(200, [success |-> TRUE, user |-> u],
                {[name |-> AuthCookieName,
                  value |-> jwtSign(u, verifySecret(env), now),
                  httpOnly |-> TRUE, path |-> "/",
                  maxAge |-> CookieMaxAge, sameSite |-> "strict"]},
                <<"getUserFromRequest", "jwt.sign", "cookies.set">>)

\* GET /api/auth/me.
MeGET(cookies, env, now) ==
  LET user == getUserFromRequest(cookies, env, now) IN
  IF user = {Thrown}
  THEN Response(500, [success |-> FALSE, message |-> "Internal server error"],
                {}, <<"getUserFromRequest">>)
  ELSE IF user = {}
  THEN Response(401, [success |-> FALSE, message |-> "Not authenticated"],
                {}, <<"getUserFromRequest">>)
  ELSE Response(200, [success |-> TRUE, user |-> CHOOSE u \in user : TRUE],
                {}, <<"getUserFromRequest">>)

\* ------------------------------------------------------------- the browser

NoCookie == [present |-> FALSE]

\* The jar after the response's Set-Cookie headers, received at `now`.
ApplySetCookie(jar, setCookie, now) ==
  [n \in CookieNames |->
     IF \E c \in setCookie : c.name = n
     THEN LET c == CHOOSE c \in setCookie : c.name = n IN
          IF "maxAge" \in DOMAIN c
          THEN IF c.maxAge > 0
               THEN [present |-> TRUE, value |-> c.value,
                     expiresAt |-> now + c.maxAge]
               ELSE NoCookie
          ELSE IF c.expires > now
               THEN [present |-> TRUE, value |-> c.value,
                     expiresAt |-> c.expires]
               ELSE NoCookie
     ELSE jar[n]]

\* The cookies the browser sends at `now`: those it holds and that have not
\* expired.
RequestCookies(jar, now) ==
  [n \in CookieNames |->
     IF jar[n].present /\ now < jar[n].expiresAt THEN {jar[n].value} ELSE {}]

\* -------------------------------------------------------------- JSON text

\* A JSON text is the sequence of its tokens; the empty sequence is the
\* empty string.
Punct(c) == [k |-> "punct", c |-> c]
StrTok(x) == [k |-> "str", s |-> x]
NumTok(n) == [k |-> "num", n |-> n]
LitTok(w) == [k |-> "lit", w |-> w]

RECURSIVE JSONStringify(_)
RECURSIVE StringifyMembers(_)

StringifyMembers(props) ==
  IF props = <<>> THEN <<>>
  ELSE <<StrTok(props[1][1]), Punct(":")>> \o JSONStringify(props[1][2])
       \o (IF Len(props) = 1 THEN <<>>
           ELSE <<Punct(",")>> \o StringifyMembers(Tail(props)))

\* JSON.stringify(value)
JSONStringify(v) ==
  CASE v.t = "string" -> <<StrTok(v.s)>>
    [] v.t = "number" -> <<NumTok(v.n)>>
    [] v.t = "boolean" -> <<LitTok(IF v.b THEN "true" ELSE "false")>>
    [] v.t = "null" -> <<LitTok("null")>>
    [] v.t = "object" ->
         <<Punct("{")>> \o StringifyMembers(v.props) \o <<Punct("}")>>

SyntaxError == [ok |-> FALSE]

\* obj[key] = value on an ordered property list: a repeated key keeps its
\* place and takes the later value.
SetProperty(props, key, value) ==
  IF \E i \in 1..Len(props) : props[i][1] = key
  THEN [i \in 1..Len(props) |->
          IF props[i][1] = key THEN <<key, value>> ELSE props[i]]
  ELSE Append(props, <<key, value>>)

RECURSIVE ParseValue(_)
RECURSIVE ParseMembers(_, _)

\* One JSON value at the head of `ts`: the value and the tokens left.
ParseValue(ts) ==
  IF ts = <<>> THEN SyntaxError
  ELSE LET h == Head(ts) IN
    CASE h.k = "str" -> [ok |-> TRUE, value |-> JSString(h.s), rest |-> Tail(ts)]
      [] h.k = "num" -> [ok |-> TRUE, value |-> JSNumber(h.n), rest |-> Tail(ts)]
      [] h.k = "lit" ->
           [ok |-> TRUE,
            value |-> IF h.w = "null" THEN JSNull ELSE JSBoolean(h.w = "true"),
            rest |-> Tail(ts)]
      [] h.k = "punct" ->
           IF h.c # "{" THEN SyntaxError
           ELSE IF Len(ts) >= 2 /\ ts[2] = Punct("}")
                THEN [ok |-> TRUE, value |-> JSObject(<<>>),
                      rest |-> Tail(Tail(ts))]
                ELSE ParseMembers(Tail(ts), <<>>)

\* The members of an object after its "{" or a ",": key ":" value, then ","
\* or "}".
ParseMembers(ts, acc) ==
  IF Len(ts) < 3 \/ ts[1].k # "str" \/ ts[2] # Punct(":") THEN SyntaxError
  ELSE LET member == ParseValue(SubSeq(ts, 3, Len(ts))) IN
    IF ~member.ok \/ member.rest = <<>> THEN SyntaxError
    ELSE LET props == SetProperty(acc, ts[1].s, member.value)
             sep == Head(member.rest)
         IN  IF sep = Punct("}")
             THEN [ok |-> TRUE, value |-> JSObject(props),
                   rest |-> Tail(member.rest)]
             ELSE IF sep = Punct(",")
             THEN ParseMembers(Tail(member.rest), props)
             ELSE SyntaxError

\* JSON.parse(text): the value, or ok = FALSE where it throws.
JSONParse(text) ==
  LET r == ParseValue(text) IN
  IF r.ok /\ r.rest = <<>> THEN [ok |-> TRUE, value |-> r.value]
  ELSE SyntaxError

\* --------------------------------------------------- Client Session Context

NoItem == [present |-> FALSE]
Item(text) == [present |-> TRUE, text |-> text]

\* A browser that denies the page its storage: every access to localStorage
\* throws a SecurityError.
Denied == [present |-> FALSE, denied |-> TRUE]

\* What the AuthProvider's state holds: user, isLoading, isAuthenticated.
AuthState(u, l, a) == [user |-> u, isLoading |-> l, isAuthenticated |-> a]

\* A mutant of the initial state: loading starts false.
InitialAuthState_NotLoading == AuthState(JSNull, FALSE, FALSE)

\* useState(null), useState(true), useState(false)
InitialAuthState == AuthState(JSNull, TRUE, FALSE)

\* checkAuthStatus, the mount effect: the state and the storage item after
\* it, its setState calls applied in order, the calls it made, and whether
\* an exception left it. localStorage.getItem is read outside the try.
checkAuthStatus(state, item) ==
  LET loading == [state EXCEPT !.isLoading = TRUE]
      truthy == item.present /\ item.text # <<>>
      parsed == IF truthy THEN JSONParse(item.text) ELSE SyntaxError
  IN  IF item = Denied
      THEN [state |-> loading, item |-> item, threw |-> TRUE,
            calls |-> <<"setIsLoading(true)">>]
      ELSE IF ~truthy
      THEN [state |-> [loading EXCEPT !.isLoading = FALSE], item |-> item,
            threw |-> FALSE,
            calls |-> <<"setIsLoading(true)", "setIsLoading(false)">>]
      ELSE IF parsed.ok
      THEN [state |-> AuthState(parsed.value, FALSE, TRUE), item |-> item,
            threw |-> FALSE,
            calls |-> <<"setIsLoading(true)", "setUser",
                        "setIsAuthenticated(true)", "setIsLoading(false)">>]
      ELSE [state |-> [loading EXCEPT !.isLoading = FALSE], item |-> NoItem,
            threw |-> FALSE,
            calls |-> <<"setIsLoading(true)", "localStorage.removeItem",
                        "setIsLoading(false)">>]

\* A mutant of login: a rejected attempt signs the current session out.
login_ClearsOnFailure(state, item, email, password) ==
  IF email = "admin@example.com" /\ password = "password123"
  THEN LET userData == JSObject(<< <<"email", JSString(email)>>,
                                   <<"name", JSString("Admin User")>>,
                                   <<"role", JSString("admin")>> >>)
       IN  [state |-> AuthState(userData, FALSE, TRUE),
            item |-> Item(JSONStringify(userData)), threw |-> FALSE,
            calls |-> <<"setIsLoading(true)", "setUser",
                        "setIsAuthenticated(true)", "localStorage.setItem",
                        "setIsLoading(false)">>]
  ELSE [state |-> AuthState(JSNull, FALSE, FALSE), item |-> NoItem,
        threw |-> TRUE,
        calls |-> <<"setIsLoading(true)", "setIsLoading(false)">>]

\* A mutant of login: only the email is stored, not the user object.
login_StoresEmail(state, item, email, password) ==
  IF email = "admin@example.com" /\ password = "password123"
  THEN LET userData == JSObject(<< <<"email", JSString(email)>>,
                                   <<"name", JSString("Admin User")>>,
                                   <<"role", JSString("admin")>> >>)
       IN  [state |-> AuthState(userData, FALSE, TRUE),
            item |-> Item(JSONStringify(JSString(email))), threw |-> FALSE,
            calls |-> <<"setIsLoading(true)", "setUser",
                        "setIsAuthenticated(true)", "localStorage.setItem",
                        "setIsLoading(false)">>]
  ELSE [state |-> [state EXCEPT !.isLoading = FALSE], item |-> item,
        threw |-> TRUE,
        calls |-> <<"setIsLoading(true)", "setIsLoading(false)">>]

\* A mutant of login: the session is kept in memory only, nothing is stored.
login_NoPersist(state, item, email, password) ==
  IF email = "admin@example.com" /\ password = "password123"
  THEN LET userData == JSObject(<< <<"email", JSString(email)>>,
                                   <<"name", JSString("Admin User")>>,
                                   <<"role", JSString("admin")>> >>)
       IN  [state |-> AuthState(userData, FALSE, TRUE),
            item |-> item, threw |-> FALSE,
            calls |-> <<"setIsLoading(true)", "setUser",
                        "setIsAuthenticated(true)", "setIsLoading(false)">>]
  ELSE [state |-> [state EXCEPT !.isLoading = FALSE], item |-> item,
        threw |-> TRUE,
        calls |-> <<"setIsLoading(true)", "setIsLoading(false)">>]

\* A mutant of login: no finally block, setIsLoading(false) only before the
\* return of an accepted attempt.
login_NoFinally(state, item, email, password) ==
  IF email = "admin@example.com" /\ password = "password123"
  THEN LET userData == JSObject(<< <<"email", JSString(email)>>,
                                   <<"name", JSString("Admin User")>>,
                                   <<"role", JSString("admin")>> >>)
       IN  [state |-> AuthState(userData, FALSE, TRUE),
            item |-> Item(JSONStringify(userData)), threw |-> FALSE,
            calls |-> <<"setIsLoading(true)", "setUser",
                        "setIsAuthenticated(true)", "localStorage.setItem",
                        "setIsLoading(false)">>]
  ELSE [state |-> [state EXCEPT !.isLoading = TRUE], item |-> item,
        threw |-> TRUE,
        calls |-> <<"setIsLoading(true)">>]

\* login(email, password) of the context: the state and the storage item
\* after it, and whether the returned promise rejects.
login(state, item, email, password) ==
  IF email = "admin@example.com" /\ password = "password123"
  THEN LET userData == JSObject(<< <<"email", JSString(email)>>,
                                   <<"name", JSString("Admin User")>>,
                                   <<"role", JSString("admin")>> >>)
       IN  [state |-> AuthState(userData, FALSE, TRUE),
            item |-> Item(JSONStringify(userData)), threw |-> FALSE,
            calls |-> <<"setIsLoading(true)", "setUser",
                        "setIsAuthenticated(true)", "localStorage.setItem",
                        "setIsLoading(false)">>]
  ELSE [state |-> [state EXCEPT !.isLoading = FALSE], item |-> item,
        threw |-> TRUE,
        calls |-> <<"setIsLoading(true)", "setIsLoading(false)">>]

\* A mutant of logout: the user object is left in the state.
logout_KeepsUser(state, item) ==
  [state |-> [state EXCEPT !.isAuthenticated = FALSE],
   item |-> NoItem, threw |-> FALSE,
   calls |-> <<"setIsAuthenticated(false)", "localStorage.removeItem",
               "router.push">>]

\* A mutant of logout: the stored item is left behind.
logout_KeepsItem(state, item) ==
  [state |-> [state EXCEPT !.user = JSNull, !.isAuthenticated = FALSE],
   item |-> item, threw |-> FALSE,
   calls |-> <<"setUser", "setIsAuthenticated(false)", "router.push">>]

\* logout() of the context.
logout(state, item) ==
  [state |-> [state EXCEPT !.user = JSNull, !.isAuthenticated = FALSE],
   item |-> NoItem, threw |-> FALSE,
   calls |-> <<"setUser", "setIsAuthenticated(false)",
               "localStorage.removeItem", "router.push">>]

\* -------------------------------------------------------------- Route Guard

\* A mutant of ProtectedRoute: the children are rendered whenever the
\* check is over, authenticated or not.
ProtectedRoute_NoAuthCheck(isLoading, isAuthenticated) ==
  IF isLoading THEN "placeholder" ELSE "children"

\* What ProtectedRoute renders.
ProtectedRoute(isLoading, isAuthenticated) ==
  IF isLoading THEN "placeholder"
  ELSE IF isAuthenticated THEN "children" ELSE "nothing"

\* A mutant of ProtectedRoute's effect: it redirects whenever the check is
\* over, authenticated or not.
GuardRedirects_IgnoresAuth(isLoading, isAuthenticated) == ~isLoading

\* ProtectedRoute's effect: whether it calls router.push("/login").
GuardRedirects(isLoading, isAuthenticated) == ~isLoading /\ ~isAuthenticated

\* ------------------------------------------------------------------- state

VARIABLES
  now,              \* the clock, in seconds
  ticks,            \* how many times the clock has advanced
  env,              \* process.env.JWT_SECRET
  nodeEnv,          \* process.env.NODE_ENV: how the instance was started
  jar,              \* the browser's cookie jar
  issued,           \* the token of the latest successful Login, as seen on the wire
  last,             \* the latest request to a handler and its response
  storage,          \* localStorage's 'user' item
  phase,            \* "mounted": the AuthProvider rendered, its effect pending; "ready";
                    \* "crashed": the effect threw and the tree was taken down
  boot,             \* how the mount effect ended: "pending", "restored", "absent",
                    \* "removed", "crashed"
  user,             \* AuthProvider state
  isLoading,        \* AuthProvider state
  isAuthenticated,  \* AuthProvider state
  route,            \* the page shown
  nav,              \* the router.push calls not yet carried out
  view,             \* what ProtectedRoute rendered, "unmounted" off the dashboard
  clientLast,       \* the latest call on the context and how it ended
  form,             \* the login page's form: idle, or submitted and waiting, or done
  written           \* the latest call of the context that wrote the session in this
                    \* browser, over reloads: none, a login() and its user, or a logout()

serverVars == <<now, ticks, env, nodeEnv, jar, issued, last>>
clientVars == <<storage, phase, boot, user, isLoading, isAuthenticated, route,
                nav, view, clientLast, form, written>>
vars == <<now, ticks, env, nodeEnv, jar, issued, last, storage, phase, boot,
          user, isLoading, isAuthenticated, route, nav, view, clientLast, form,
          written>>

\* JWT_SECRET unset, set to the empty string, or configured.
Environments == {JSUndefined, JSString(""), JSString("configured-secret")}

Emails == {JSUndefined, JSString(""), JSString("admin@example.com"),
           JSString("ADMIN@example.com"), JSString("nobody@example.com"),
           JSNumber(1)}
Passwords == {JSUndefined, JSString(""), JSString("admin123"),
              JSString("password123"), JSString("wrong")}

\* The properties of a request body: an undefined one is not sent.
Fields(e, p) ==
  (IF e = JSUndefined THEN <<>> ELSE << <<"email", e>> >>)
  \o (IF p = JSUndefined THEN <<>> ELSE << <<"password", p>> >>)

\* What request.json() can yield for a Login request.
LoginBodies ==
  {[t |-> "invalid"], JSNull, JSNumber(5)}
  \cup {JSObject(Fields(e, p)) : e \in Emails, p \in Passwords}

\* The clock when the run starts, in seconds since new Date(0).
StartTime == 1

\* The clock's steps: a second, and a second short of a token's lifetime.
TickSteps == {1, ExpiresIn - 1}

\* Keys a third party can sign with: never the server's current secret.
ForeignKeys(e) == {"attacker-key", DefaultSecret, "configured-secret"} \ {verifySecret(e)}

\* What a client that saw token `t` on the wire can present in its place.
Variants(t, e) ==
  LET roleUp == [t.claims EXCEPT !.role = "superadmin"]
      longer == [t.claims EXCEPT !.exp = @ + ExpiresIn]
  IN  {t, Garbage, EmptyValue,
       [t EXCEPT !.claims = roleUp],
       [t EXCEPT !.claims = longer]}
      \cup {[t EXCEPT !.sig = Mac(k, t.claims)] : k \in ForeignKeys(e)}
      \cup {[t EXCEPT !.claims = longer, !.sig = Mac(k, longer)] : k \in ForeignKeys(e)}
      \cup {[t EXCEPT !.sig = Mac(verifySecret(e), roleUp)]}

\* NODE_ENV of a local development server and of a deployed instance.
NodeEnvs == {"development", "production"}

InitServer ==
  /\ now = StartTime
  /\ ticks = 0
  /\ env \in Environments
  /\ nodeEnv \in NodeEnvs
  /\ jar = [n \in CookieNames |-> NoCookie]
  /\ issued = [present |-> FALSE]
  /\ last = [op |-> "none"]

\* Time passes.
Tick ==
  /\ ticks < MaxTicks
  /\ \E d \in TickSteps : now' = now + d
  /\ ticks' = ticks + 1
  /\ UNCHANGED <<env, nodeEnv, jar, issued, last>>
  /\ UNCHANGED clientVars

\* The browser posts `body` to the Login handler and applies the response.
Login ==
  \E body \in LoginBodies :
    LET resp == LoginPOST(body, env, now)
        hit == findUser(Property(body, "email"), Property(body, "password"))
    IN  /\ jar' = ApplySetCookie(jar, resp.setCookie, now)
        /\ issued' = IF \E c \in resp.setCookie : c.value.kind = "jwt"
                     THEN [present |-> TRUE,
                           token |-> (CHOOSE c \in resp.setCookie : TRUE).value,
                           entry |-> hit,
                           loggedOutSince |-> FALSE]
                     ELSE issued
        /\ last' = [op |-> "login", body |-> body, resp |-> resp, at |-> now]
        /\ UNCHANGED <<now, ticks, env, nodeEnv>>
        /\ UNCHANGED clientVars

\* The browser posts a pair the directory holds and jwt.sign throws: the
\* exception is caught by the handler's catch block.
LoginSignFault ==
  \E body \in LoginBodies :
    LET resp == InternalError(<<"request.json", "mockUsers.find", "jwt.sign">>)
    IN  /\ body.t = "object"
        /\ findUser(Property(body, "email"), Property(body, "password")) # 0
        /\ jar' = ApplySetCookie(jar, resp.setCookie, now)
        /\ last' = [op |-> "login", body |-> body, resp |-> resp, at |-> now]
        /\ UNCHANGED <<now, ticks, env, nodeEnv, issued>>
        /\ UNCHANGED clientVars

\* The browser posts to the Logout handler and applies the response.
Logout ==
  LET resp == LogoutPOST IN
  /\ jar' = ApplySetCookie(jar, resp.setCookie, now)
  /\ issued' = IF issued.present THEN [issued EXCEPT !.loggedOutSince = TRUE]
               ELSE issued
  /\ last' = [op |-> "logout", from |-> "browser",
              cookies |-> RequestCookies(jar, now), resp |-> resp, at |-> now]
  /\ UNCHANGED <<now, ticks, env, nodeEnv>>
  /\ UNCHANGED clientVars

\* A client that saw the token on the wire posts to the Logout handler with
\* it or with a value that is no token; the handler does not read the
\* request.
LogoutReplay ==
  /\ issued.present
  /\ \E v \in {issued.token, Garbage} :
       LET cookies == [NoCookies EXCEPT ![AuthCookieName] = {v}]
       IN  last' = [op |-> "logout", from |-> "replay", cookies |-> cookies,
                    resp |-> LogoutPOST, at |-> now]
  /\ UNCHANGED <<now, ticks, env, nodeEnv, jar, issued>>
  /\ UNCHANGED clientVars

\* The browser asks who it is, sending the cookies of its jar.
MeBrowser ==
  LET cookies == RequestCookies(jar, now)
      resp == MeGET(cookies, env, now)
  IN  /\ jar' = ApplySetCookie(jar, resp.setCookie, now)
      /\ last' = [op |-> "me", from |-> "browser", cookies |-> cookies,
                  resp |-> resp, at |-> now]
      /\ UNCHANGED <<now, ticks, env, nodeEnv, issued>>
      /\ UNCHANGED clientVars

\* A client that kept the issued token presents it, or a variant of it, under
\* one of the cookie names.
MeReplay ==
  /\ issued.present
  /\ \E v \in Variants(issued.token, env), n \in CookieNames :
       LET cookies == [NoCookies EXCEPT ![n] = {v}]
           resp == MeGET(cookies, env, now)
       IN  last' = [op |-> "me", from |-> "replay", cookies |-> cookies,
                    resp |-> resp, at |-> now]
  /\ UNCHANGED <<now, ticks, env, nodeEnv, jar, issued>>
  /\ UNCHANGED clientVars

\* ------------------------------------------------------------ client side

Routes == {"/dashboard", "/login"}

DemoUser ==
  JSObject(<< <<"email", JSString("admin@example.com")>>,
              <<"name", JSString("Admin User")>>,
              <<"role", JSString("admin")>> >>)

\* An object no login of this program stored.
PlantedUser ==
  JSObject(<< <<"email", JSString("mallory@example.com")>>,
              <<"name", JSString("Mallory")>>,
              <<"role", JSString("admin")>> >>)

\* What the 'user' item can hold when the provider mounts: nothing, the
\* empty string, what login() stored, what another script stored, a cut-off
\* text, and JSON that is no object; or the storage cannot be read at all.
StoredItems ==
  {NoItem, Denied, Item(<<>>), Item(JSONStringify(DemoUser)),
   Item(JSONStringify(PlantedUser)),
   Item(<<Punct("{"), StrTok("email")>>),
   Item(<<LitTok("null")>>), Item(<<NumTok(123)>>)}

FormEmails == {"admin@example.com", "ADMIN@example.com", "nobody@example.com", ""}
FormPasswords == {"password123", "admin123", "wrong", ""}

NoNav == [to |-> "", by |-> {}]

\* router.push(to), called by `by`.
Push(n, to, by) == [to |-> to, by |-> IF n.to = to THEN n.by \cup {by} ELSE {by}]

\* What ProtectedRoute shows on page `r`.
View(r, l, a) == IF r = "/dashboard" THEN ProtectedRoute(l, a) ELSE "unmounted"

\* The pending navigation after ProtectedRoute's effect ran, if it ran:
\* it runs when the guard mounts and when isAuthenticated or isLoading change.
AfterEffect(n, r, run, l, a) ==
  IF r = "/dashboard" /\ run /\ GuardRedirects(l, a)
  THEN Push(n, "/login", "guard") ELSE n

\* The login page before any submission.
IdleForm == [state |-> "idle"]

InitClient ==
  /\ storage \in StoredItems
  /\ phase = "mounted"
  /\ boot = "pending"
  /\ user = InitialAuthState.user
  /\ isLoading = InitialAuthState.isLoading
  /\ isAuthenticated = InitialAuthState.isAuthenticated
  /\ route \in Routes
  /\ nav = AfterEffect(NoNav, route, TRUE, InitialAuthState.isLoading,
                       InitialAuthState.isAuthenticated)
  /\ view = View(route, isLoading, isAuthenticated)
  /\ clientLast = [op |-> "none"]
  /\ form = IdleForm
  /\ written = [by |-> "none"]

\* The AuthProvider's state and storage after a call, committed, and the
\* guard re-rendered with its effect.
Commit(r, n) ==
  /\ user' = r.state.user
  /\ isLoading' = r.state.isLoading
  /\ isAuthenticated' = r.state.isAuthenticated
  /\ storage' = r.item
  /\ view' = View(route, r.state.isLoading, r.state.isAuthenticated)
  /\ nav' = AfterEffect(n, route,
                        r.state.isLoading # isLoading
                          \/ r.state.isAuthenticated # isAuthenticated,
                        r.state.isLoading, r.state.isAuthenticated)

\* How the mount effect ended, from what it returned.
BootOutcome(r, item) ==
  IF r.threw THEN "crashed"
  ELSE IF r.state.isAuthenticated THEN "restored"
  ELSE IF r.item # item THEN "removed" ELSE "absent"

\* The provider mounts and the guard with it: the guard's effect runs on the
\* initial state, before the provider's own effect (InitClient and Reload).

\* The provider's mount effect runs. An exception that leaves the effect
\* takes the rendered tree down: no state is committed and nothing of the
\* guard stays on screen.
Hydrate ==
  /\ phase = "mounted"
  /\ LET r == checkAuthStatus(AuthState(user, isLoading, isAuthenticated), storage)
     IN  /\ IF r.threw
            THEN /\ phase' = "crashed"
                 /\ view' = "unmounted"
                 /\ UNCHANGED <<user, isLoading, isAuthenticated, storage, nav>>
            ELSE /\ phase' = "ready"
                 /\ Commit(r, nav)
         /\ boot' = BootOutcome(r, storage)
         /\ clientLast' = [op |-> "hydrate", read |-> storage,
                           threw |-> r.threw, calls |-> r.calls]
  /\ UNCHANGED <<route, form, written>>
  /\ UNCHANGED serverVars

\* A view calls login(email, password) of the context.
ClientLogin ==
  /\ phase = "ready"
  /\ \E e \in FormEmails, p \in FormPasswords :
       LET r == login(AuthState(user, isLoading, isAuthenticated), storage, e, p)
       IN  /\ Commit(r, nav)
           /\ clientLast' = [op |-> "login", email |-> e, password |-> p,
                             threw |-> r.threw, calls |-> r.calls]
           /\ written' = IF r.threw THEN written
                         ELSE [by |-> "login", user |-> r.state.user]
  /\ UNCHANGED <<phase, boot, route, form>>
  /\ UNCHANGED serverVars

\* A view calls logout() of the context.
ClientLogout ==
  /\ phase = "ready"
  /\ LET r == logout(AuthState(user, isLoading, isAuthenticated), storage)
     IN  /\ Commit(r, Push(nav, "/login", "logout"))
         /\ clientLast' = [op |-> "logout", threw |-> r.threw, calls |-> r.calls]
         /\ written' = [by |-> "logout"]
  /\ UNCHANGED <<phase, boot, route, form>>
  /\ UNCHANGED serverVars

\* The router carries out the pending push: the page changes, and the guard
\* mounts with the dashboard.
Navigate ==
  /\ nav.to # ""
  /\ route' = nav.to
  /\ view' = View(nav.to, isLoading, isAuthenticated)
  /\ nav' = AfterEffect(NoNav, nav.to, route # nav.to, isLoading, isAuthenticated)
  /\ UNCHANGED <<storage, phase, boot, user, isLoading, isAuthenticated, clientLast,
                 form, written>>
  /\ UNCHANGED serverVars

\* The viewer follows a link to another page.
Visit ==
  /\ phase = "ready"
  /\ \E r \in Routes \ {route} :
       /\ route' = r
       /\ view' = View(r, isLoading, isAuthenticated)
       /\ nav' = AfterEffect(NoNav, r, TRUE, isLoading, isAuthenticated)
  /\ UNCHANGED <<storage, phase, boot, user, isLoading, isAuthenticated, clientLast,
                 form, written>>
  /\ UNCHANGED serverVars

\* The page is reloaded: the provider mounts afresh, the storage stays.
Reload ==
  /\ phase \in {"ready", "crashed"}
  /\ phase' = "mounted"
  /\ boot' = "pending"
  /\ user' = InitialAuthState.user
  /\ isLoading' = InitialAuthState.isLoading
  /\ isAuthenticated' = InitialAuthState.isAuthenticated
  /\ nav' = AfterEffect(NoNav, route, TRUE, InitialAuthState.isLoading,
                        InitialAuthState.isAuthenticated)
  /\ view' = View(route, InitialAuthState.isLoading, InitialAuthState.isAuthenticated)
  /\ clientLast' = [op |-> "none"]
  /\ form' = IdleForm
  /\ UNCHANGED <<storage, route, written>>
  /\ UNCHANGED serverVars

\* What the viewer can have typed into the login form when submitting it.
SubmitPasswords == {"password123", "admin123", "wrong"}

\* handleSubmit of the login page, up to its await: the form is submitted
\* and the page waits on its one-second timer.
SubmitStart ==
  /\ phase = "ready"
  /\ route = "/login"
  /\ form.state # "waiting"
  /\ \E p \in SubmitPasswords :
       form' = [state |-> "waiting", email |-> "admin@example.com", password |-> p]
  /\ UNCHANGED <<storage, phase, boot, user, isLoading, isAuthenticated, route,
                 nav, view, clientLast, written>>
  /\ UNCHANGED serverVars

\* handleSubmit after its await: the timer resolved, and the page calls
\* router.push("/dashboard").
SubmitEnd ==
  /\ form.state = "waiting"
  /\ form' = [form EXCEPT !.state = "done"]
  /\ nav' = Push(nav, "/dashboard", "loginPage")
  /\ UNCHANGED <<storage, phase, boot, user, isLoading, isAuthenticated, route,
                 view, clientLast, written>>
  /\ UNCHANGED serverVars

ClientNext == Hydrate \/ ClientLogin \/ ClientLogout \/ Navigate \/ Visit \/ Reload

ServerNext ==
  Tick \/ Login \/ LoginSignFault \/ Logout \/ LogoutReplay \/ MeBrowser \/ MeReplay

\* The handlers of a deployed instance and the browser, the client context
\* idle on the login page.
Init ==
  /\ InitServer
  /\ InitClient
  /\ nodeEnv = "production"
  /\ storage = NoItem
  /\ route = "/login"

Next == ServerNext

Spec == Init /\ [][Next]_vars

\* The client context and the guard, no request sent to the handlers.
ClientInit ==
  /\ InitServer
  /\ InitClient
  /\ env = JSUndefined
  /\ nodeEnv = "production"

ClientSpec == ClientInit /\ [][ClientNext]_vars

\* The client context, the guard and the login page's form.
PageInit ==
  /\ InitServer
  /\ InitClient
  /\ env = JSUndefined
  /\ nodeEnv = "production"

PageNext == ClientNext \/ SubmitStart \/ SubmitEnd

PageSpec == PageInit /\ [][PageNext]_vars

\* The handlers under every configuration of the process, development and
\* deployed, with one browser and no clock step.
DeployInit ==
  /\ InitServer
  /\ InitClient
  /\ storage = NoItem
  /\ route = "/login"

DeployNext == Login \/ Logout \/ MeBrowser

DeploySpec == DeployInit /\ [][DeployNext]_vars

\* One browser holding both: the page with the client context, and the
\* cookie jar its requests to the handlers go through.
SessionInit ==
  /\ InitServer
  /\ InitClient
  /\ env = JSUndefined
  /\ nodeEnv = "production"
  /\ storage = NoItem

SessionNext == Login \/ Logout \/ MeBrowser \/ ClientNext

SessionSpec == SessionInit /\ [][SessionNext]_vars

\* ------------------------------------------------------------------ claims

\* The value the latest identity lookup presented under the handlers'
\* cookie name.
Presented == last.cookies[AuthCookieName]

\* The four identity fields of a record.
Identity(r) == [id |-> r.id, email |-> r.email, name |-> r.name, role |-> r.role]

\* What a caller sees of a response.
Observable(resp) ==
  [status |-> resp.status, body |-> resp.body, setCookie |-> resp.setCookie]

KnownEmail(email) ==
  \E i \in 1..Len(mockUsers) : JSString(mockUsers[i].email) = email

NoEntryMatches(email, password) ==
  \A i \in 1..Len(mockUsers) :
    ~(JSString(mockUsers[i].email) = email
      /\ JSString(mockUsers[i].password) = password)

BodyEmail(body) == Property(body, "email")
BodyPassword(body) == Property(body, "password")

\* C1: the token Login issued for a directory entry, verified by
\* getUserFromRequest strictly before its expiry, under every setting of
\* JWT_SECRET, yields that entry's id, email, name and role.
C1_IssuedTokenVerifies ==
  (/\ last.op = "me"
   /\ issued.present
   /\ Presented = {issued.token}
   /\ last.at < issued.token.claims.exp)
  => /\ last.resp.status = 200
     /\ Identity(last.resp.body.user) = Identity(mockUsers[issued.entry])

\* C1's case: the issued token is verified in the last second of its life.
C1_Witness ==
  /\ last.op = "me"
  /\ issued.present
  /\ Presented = {issued.token}
  /\ last.at = issued.token.claims.exp - 1
  /\ last.resp.status = 200

\* C2, as claimed: once a Logout has completed, a lookup presenting the token
\* the earlier Login issued is answered 401.
C2_LogoutRevokesToken ==
  (/\ last.op = "me"
   /\ issued.present
   /\ issued.loggedOutSince
   /\ Presented = {issued.token})
  => last.resp.status = 401

\* C3, as claimed: Login with admin@example.com / password123 answers 200
\* with the Admin User identity and sets the session cookie.
C3_DemoCredentialsLogin ==
  (/\ last.op = "login"
   /\ last.body = JSObject(Fields(JSString("admin@example.com"),
                                  JSString("password123"))))
  => /\ last.resp.status = 200
     /\ last.resp.body.user.email = "admin@example.com"
     /\ last.resp.body.user.name = "Admin User"
     /\ last.resp.body.user.role = "admin"
     /\ \E c \in last.resp.setCookie : c.name = LoginCookieName

\* C4: a failed Login with a known email and a Login with an unknown email
\* are answered alike (status, body, cookies) whenever both carry a password
\* or carry the same one; neither sets a cookie.
C4_Indistinguishable ==
  (/\ last.op = "login"
   /\ last.body.t = "object"
   /\ KnownEmail(BodyEmail(last.body))
   /\ NoEntryMatches(BodyEmail(last.body), BodyPassword(last.body)))
  => /\ last.resp.setCookie = {}
     /\ \A b \in LoginBodies :
          (/\ b.t = "object"
           /\ Truthy(BodyEmail(b))
           /\ ~KnownEmail(BodyEmail(b))
           /\ \/ BodyPassword(b) = BodyPassword(last.body)
              \/ Truthy(BodyPassword(b)) /\ Truthy(BodyPassword(last.body)))
          => Observable(LoginPOST(b, env, last.at)) = Observable(last.resp)

\* C4's case: a known email with a wrong password was refused.
C4_Witness ==
  /\ last.op = "login"
  /\ last.body.t = "object"
  /\ KnownEmail(BodyEmail(last.body))
  /\ BodyPassword(last.body) = JSString("wrong")
  /\ last.resp.status = 401

\* C5: a token presented at or after issued-at + 24 h is answered absent,
\* whatever its signature; the issued token is still accepted one second
\* before that instant, so the clock of the verification decides.
C5_ExpiredTokenAbsent ==
  (last.op = "me")
  => /\ \A v \in Presented :
          (v.kind = "jwt" /\ last.at >= v.claims.iat + ExpiresIn)
          => last.resp.status = 401
     /\ (/\ issued.present
         /\ Presented = {issued.token}
         /\ last.at = issued.token.claims.iat + ExpiresIn - 1)
        => last.resp.status = 200

\* C5's case: the issued token is presented exactly at issued-at + 24 h.
C5_Witness ==
  /\ last.op = "me"
  /\ issued.present
  /\ Presented = {issued.token}
  /\ last.at = issued.token.claims.iat + ExpiresIn
  /\ last.resp.status = 401

\* C6: an identity is returned only for the token the server signed; every
\* presented value that differs from it in payload or signature (tampered
\* claims, a signature over other claims, a signature under another secret,
\* no token at all) is answered absent.
C6_TamperedTokenAbsent ==
  (last.op = "me")
  => /\ last.resp.status = 200 => issued.present /\ Presented = {issued.token}
     /\ \A v \in Presented :
          (~issued.present \/ v # issued.token) => last.resp.status = 401

\* C6's case: a token with changed claims, signed under another secret (the
\* built-in default, on a server with JWT_SECRET configured), was refused.
C6_Witness ==
  /\ last.op = "me"
  /\ issued.present
  /\ verifySecret(env) # DefaultSecret
  /\ \E v \in Presented :
       /\ v.kind = "jwt"
       /\ v.claims # issued.token.claims
       /\ v.sig = Mac(DefaultSecret, v.claims)
       /\ last.at < v.claims.exp
  /\ last.resp.status = 401

\* C7: the Route Guard shows the protected children only when loading is
\* false and authenticated is true, and while it is mounted and loading it
\* shows the placeholder.
C7_NoFlash ==
  /\ view = "children" => ~isLoading /\ isAuthenticated
  /\ (route = "/dashboard" /\ isLoading /\ phase # "crashed") => view = "placeholder"
  /\ (route = "/dashboard" /\ ~isLoading /\ ~isAuthenticated) => view = "nothing"

\* C7's case: the children are shown after a login.
C7_Witness ==
  /\ view = "children"
  /\ clientLast.op = "login"
  /\ ~clientLast.threw

\* C8, as claimed: a non-absent identity of the Client Session Context is
\* one that a successful credential check yields.
C8_IdentityOnlyFromCheck ==
  (user # JSNull)
  => \E e \in FormEmails, p \in FormPasswords :
       LET r == login(InitialAuthState, NoItem, e, p)
       IN  ~r.threw /\ r.state.user = user

\* C9: a Login with both fields present that matches no directory entry is
\* answered 401 with the one generic message, signs no token and sets no
\* cookie.
C9_NoMatchUnauthorized ==
  (/\ last.op = "login"
   /\ last.body.t = "object"
   /\ Truthy(BodyEmail(last.body))
   /\ Truthy(BodyPassword(last.body))
   /\ NoEntryMatches(BodyEmail(last.body), BodyPassword(last.body)))
  => /\ last.resp.status = 401
     /\ last.resp.body = [error |-> "Credenciales inválidas"]
     /\ last.resp.setCookie = {}
     /\ \A i \in 1..Len(last.resp.trace) :
          last.resp.trace[i] \notin {"jwt.sign", "cookies.set"}

\* C9's case: admin@example.com with the password "wrong".
C9_Witness ==
  /\ last.op = "login"
  /\ last.body = JSObject(Fields(JSString("admin@example.com"), JSString("wrong")))
  /\ last.resp.status = 401

\* C10: a Login whose email or password is missing is answered 400 without
\* the directory being consulted, a token signed or a cookie set.
C10_MissingFieldsRejected ==
  (/\ last.op = "login"
   /\ last.body.t \in {"object", "number"}
   /\ \/ ~Truthy(BodyEmail(last.body))
      \/ ~Truthy(BodyPassword(last.body)))
  => /\ last.resp.status = 400
     /\ last.resp.setCookie = {}
     /\ \A i \in 1..Len(last.resp.trace) :
          last.resp.trace[i] \notin {"mockUsers.find", "jwt.sign", "cookies.set"}

\* C10's case: the directory's email with no password.
C10_Witness ==
  /\ last.op = "login"
  /\ last.body = JSObject(Fields(JSString("admin@example.com"), JSUndefined))
  /\ last.resp.status = 400

\* C11: the identity lookup answers 200 with the decoded identity exactly
\* when the presented cookie is the server's token and has not expired; with
\* no cookie, an empty, malformed, forged or expired one it answers 401 "Not
\* authenticated", and it never answers 500.
C11_LookupNeverFails ==
  (last.op = "me")
  => LET valid == /\ issued.present
                  /\ Presented = {issued.token}
                  /\ last.at < issued.token.claims.exp
     IN  /\ last.resp.status \in {200, 401}
         /\ last.resp.status = 200 <=> valid
         /\ valid => /\ last.resp.body.success
                     /\ last.resp.body.user = issued.token.claims
         /\ ~valid => last.resp.body =
                        [success |-> FALSE, message |-> "Not authenticated"]

\* C11's case: a cookie value that is no JWT was presented and answered 401.
C11_Witness ==
  /\ last.op = "me"
  /\ Presented = {Garbage}
  /\ last.resp.status = 401

\* C12: a login() of the context with a pair other than the accepted one
\* rejects, and a login() that rejects leaves user, isAuthenticated and the
\* stored item as they were before the call.
C12_FailedLoginKeepsSession ==
  [][(clientLast'.op = "login")
     => /\ ~(clientLast'.email = "admin@example.com"
             /\ clientLast'.password = "password123") => clientLast'.threw
        /\ clientLast'.threw => /\ user' = user
                                /\ isAuthenticated' = isAuthenticated
                                /\ storage' = storage]_vars

\* C12's case: a rejected login() while a session is authenticated.
C12_Witness ==
  /\ clientLast.op = "login"
  /\ clientLast.threw
  /\ isAuthenticated
  /\ user = DemoUser
  /\ storage = Item(JSONStringify(DemoUser))

\* C13, as claimed: a logout() of the context sends a request to the Logout
\* handler, and after it the browser holds no session cookie.
C13_LogoutCallsServer ==
  [][ClientLogout
     => /\ last'.op = "logout"
        /\ ~jar'[LogoutCookieName].present]_vars

\* C14: a logout() of the context, from every state, leaves user absent,
\* isAuthenticated false and no stored item, and has asked the router for
\* the login page.
C14_LogoutClears ==
  [][ClientLogout
     => /\ user' = JSNull
        /\ ~isAuthenticated'
        /\ storage' = NoItem
        /\ nav'.to = "/login"
        /\ "logout" \in nav'.by
        /\ clientLast'.calls[Len(clientLast'.calls)] = "router.push"]_vars

\* C14's case: logout() was called on the dashboard with a session, and the
\* navigation it asked for is pending.
C14_Witness ==
  /\ clientLast.op = "logout"
  /\ route = "/dashboard"
  /\ nav = [to |-> "/login", by |-> {"logout", "guard"}]
  /\ user = JSNull
  /\ storage = NoItem

\* How many times `call` occurs in a sequence of calls.
Occurrences(calls, call) == Cardinality({i \in 1..Len(calls) : calls[i] = call})

\* C15, as claimed: once the mount effect has run, on every outcome of
\* reading the stored session, loading is false, and the effect set it to
\* false exactly once.
C15_HydrationEndsLoading ==
  /\ (boot # "pending") => ~isLoading
  /\ (clientLast.op = "hydrate")
     => Occurrences(clientLast.calls, "setIsLoading(false)") = 1

\* C16: every login() of the context first sets loading to true and last
\* sets it to false, and loading is false once it has returned or thrown.
C16_LoginEndsLoading ==
  (clientLast.op = "login")
  => /\ Head(clientLast.calls) = "setIsLoading(true)"
     /\ clientLast.calls[Len(clientLast.calls)] = "setIsLoading(false)"
     /\ ~isLoading

\* C16's case: a login() that threw, loading false after it.
C16_Witness ==
  /\ clientLast.op = "login"
  /\ clientLast.threw
  /\ ~isLoading

\* C17: while the Route Guard is mounted with loading false and
\* authenticated false it renders nothing and its request for the login
\* page is pending; and a step in which the guard makes that request ends
\* on the dashboard with loading false and authenticated false.
C17_GuardRedirectsExactly ==
  /\ []((route = "/dashboard" /\ phase = "ready" /\ ~isLoading /\ ~isAuthenticated)
        => /\ view = "nothing"
           /\ nav.to = "/login"
           /\ "guard" \in nav.by)
  /\ [][("guard" \in nav'.by /\ "guard" \notin nav.by)
        => /\ route' = "/dashboard"
           /\ ~isLoading'
           /\ ~isAuthenticated'
           /\ view' = "nothing"]_vars

\* C17's case: the guard asked for the login page when the mount effect
\* found no session.
C17_Witness ==
  /\ route = "/dashboard"
  /\ clientLast.op = "hydrate"
  /\ boot = "absent"
  /\ nav = [to |-> "/login", by |-> {"guard"}]
  /\ view = "nothing"

\* C18: what the mount effect restored does not come back after a logout:
\* while logout() is the latest call, user is absent and isAuthenticated is
\* false, and from there only a login() makes isAuthenticated true or user
\* non-absent again.
C18_NoStaleHydration ==
  /\ []((boot = "restored" /\ clientLast.op = "logout")
        => /\ user = JSNull
           /\ ~isAuthenticated)
  /\ [][(clientLast.op = "logout" /\ (isAuthenticated' \/ user' # JSNull))
        => /\ clientLast'.op = "login"
           /\ ~clientLast'.threw]_vars

\* C18's case: the mount effect restored a session and a logout() came
\* after it.
C18_Witness ==
  /\ boot = "restored"
  /\ clientLast.op = "logout"
  /\ user = JSNull
  /\ ~isAuthenticated
  /\ storage = NoItem

\* user, isAuthenticated and the stored item describe one session, or none.
SameSession ==
  \/ /\ user = JSNull
     /\ ~isAuthenticated
     /\ storage = NoItem
  \/ /\ user # JSNull
     /\ isAuthenticated
     /\ storage.present
     /\ JSONParse(storage.text) = [ok |-> TRUE, value |-> user]

\* C19: after any sequence of login() and logout() calls the state is the
\* one the latest call that wrote left: the demo session after an accepted
\* login(), no session after a logout(); and user, isAuthenticated and the
\* stored item then describe the same session or none. A rejected login()
\* writes nothing and keeps what the call before it left.
C19_LastCallWins ==
  /\ [](/\ (clientLast.op = "login" /\ ~clientLast.threw)
           => (SameSession /\ user = DemoUser)
        /\ (clientLast.op = "logout") => (SameSession /\ user = JSNull))
  /\ [][(clientLast.op \in {"login", "logout"} /\ clientLast'.op = "login"
         /\ clientLast'.threw)
        => (SameSession => SameSession')]_vars

\* C19's case: a rejected login() that followed the logout() of a restored
\* session.
C19_Witness ==
  /\ clientLast.op = "login"
  /\ clientLast.threw
  /\ boot = "restored"
  /\ SameSession
  /\ user = JSNull

\* C20: every request to the Logout handler, with no cookie, the valid one
\* or an invalid one, first or repeated, is answered 200 {success: true}
\* with one Set-Cookie that overwrites the cookie Login sets with the empty
\* value and an expiry before the time of the request; the browser then
\* holds no session cookie.
C20_LogoutUnconditional ==
  (last.op = "logout")
  => /\ last.resp.status = 200
     /\ last.resp.body = [success |-> TRUE]
     /\ Cardinality(last.resp.setCookie) = 1
     /\ \A c \in last.resp.setCookie :
          /\ c.name = LoginCookieName
          /\ c.value = EmptyValue
          /\ c.expires < last.at
     /\ (last.from = "browser") => ~jar[LoginCookieName].present

\* C20's case: a browser that logged in and has no cookie left posts to
\* Logout again.
C20_Witness ==
  /\ last.op = "logout"
  /\ last.from = "browser"
  /\ issued.present
  /\ issued.loggedOutSince
  /\ last.cookies[AuthCookieName] = {}
  /\ last.resp.status = 200

\* C20's other case: Logout is posted with a cookie that is no token.
C20_InvalidCookie ==
  /\ last.op = "logout"
  /\ last.cookies[AuthCookieName] = {Garbage}
  /\ last.resp.status = 200

\* The two fixed bodies of a 500 response, of Login and of the lookup.
GenericFailures ==
  {[error |-> "Error interno del servidor"],
   [success |-> FALSE, message |-> "Internal server error"]}

\* The latest Login was given a pair of the directory and did not sign.
SigningFailed ==
  /\ last.body.t = "object"
  /\ ~NoEntryMatches(BodyEmail(last.body), BodyPassword(last.body))
  /\ \A c \in last.resp.setCookie : FALSE

\* C21, as claimed: a Login whose body is unparseable or is no object, or
\* whose signing fails, is answered 500 with the fixed message and sets no
\* cookie.
C21_FaultsAnswered500 ==
  (last.op = "login" /\ (last.body.t # "object" \/ SigningFailed))
  => /\ last.resp.status = 500
     /\ last.resp.body \in GenericFailures
     /\ last.resp.setCookie = {}

\* C21, amended: a Login whose body is unparseable or null, or whose signing
\* fails, is answered 500 with the fixed message and no cookie; a body that
\* is a number is answered 400 as one with missing fields; and every 500 of
\* either handler carries one of the two fixed bodies and no cookie.
C21_FaultsAnswered500_Amended ==
  /\ (last.op = "login" /\ (last.body.t \in {"invalid", "null"} \/ SigningFailed))
     => /\ last.resp.status = 500
        /\ last.resp.body = [error |-> "Error interno del servidor"]
        /\ last.resp.setCookie = {}
  /\ (last.op = "login" /\ last.body.t = "number")
     => /\ last.resp.status = 400
        /\ last.resp.body = [error |-> "Email y contraseña son requeridos"]
        /\ last.resp.setCookie = {}
  /\ (last.op # "none" /\ last.resp.status = 500)
     => /\ last.resp.body \in GenericFailures
        /\ last.resp.setCookie = {}

\* C21's case: a session cookie is held, a Login with a null body is
\* answered 500, and the cookie is still held.
C21_Witness ==
  /\ last.op = "login"
  /\ last.body = JSNull
  /\ last.resp.status = 500
  /\ jar[LoginCookieName].present

\* The mount effect met a fault: the stored item could not be read, or its
\* text could not be parsed.
HydrationFault ==
  /\ clientLast.op = "hydrate"
  /\ \/ clientLast.read = Denied
     \/ /\ clientLast.read.present
        /\ clientLast.read.text # <<>>
        /\ ~JSONParse(clientLast.read.text).ok

\* C22, as claimed: after a mount effect that met a fault while reading or
\* parsing the stored session, user is absent, isAuthenticated and loading
\* are false, the stored item is gone, and no exception left the effect.
C22_FaultMeansUnauthenticated ==
  HydrationFault
  => /\ user = JSNull
     /\ ~isAuthenticated
     /\ ~isLoading
     /\ storage = NoItem
     /\ ~clientLast.threw
     /\ phase = "ready"

\* C23, as claimed: a submission of the login form with a password that
\* neither the context's login() nor the Login handler accepts does not make
\* the login page ask the router for the dashboard.
C23_NavigatesOnlyAfterSuccess ==
  (form.state = "done" /\ form.password = "wrong")
  => ~(nav.to = "/dashboard" /\ "loginPage" \in nav.by)

\* C24, as claimed: in an instance started with NODE_ENV = production no
\* token is signed under the built-in default secret, and none signed under
\* it is accepted by the identity lookup.
C24_NoDefaultSecretDeployed ==
  (nodeEnv = "production")
  => /\ issued.present => issued.token.sig.key # DefaultSecret
     /\ (last.op = "me" /\ last.resp.status = 200)
        => \A v \in Presented : v.sig.key # DefaultSecret

\* C25: the response of an identity lookup carries no Set-Cookie, the
\* identity it returns has the iat and exp of the presented token, and a
\* step that ends with a lookup as the latest request leaves the browser's
\* cookie jar as it was.
C25_LookupHasNoEffect ==
  /\ []((last.op = "me")
        => /\ last.resp.setCookie = {}
           /\ (last.resp.status = 200)
              => \A v \in Presented :
                   /\ last.resp.body.user.exp = v.claims.exp
                   /\ last.resp.body.user.iat = v.claims.iat)
  /\ [][(last'.op = "me") => jar' = jar]_vars

\* C25's case: the browser's lookup succeeded some time after the Login,
\* and the jar holds the issued token with the expiry Login gave it.
C25_Witness ==
  /\ last.op = "me"
  /\ last.from = "browser"
  /\ last.resp.status = 200
  /\ last.at > issued.token.claims.iat
  /\ jar[AuthCookieName] = [present |-> TRUE, value |-> issued.token,
                            expiresAt |-> issued.token.claims.iat + CookieMaxAge]

\* The fields of a directory entry that may leave the handler.
PublicFields == {"id", "email", "name", "role"}

\* C26: after a successful Login the response body is {user} and user holds
\* exactly id, email, name and role of the matched entry; the claims of the
\* token hold exactly these four fields of the entry, beside the iat and exp
\* that signing adds; neither has a password field nor a field whose value
\* is the entry's password.
C26_NoCredentialLeaves ==
  (last.op = "login" /\ last.resp.status = 200)
  => LET entry == mockUsers[issued.entry]
         body == last.resp.body
     IN  /\ DOMAIN body = {"user"}
         /\ DOMAIN body.user = PublicFields
         /\ body.user = Identity(entry)
         /\ \A f \in PublicFields : body.user[f] # entry.password
         /\ \A c \in last.resp.setCookie :
              /\ c.value = issued.token
              /\ DOMAIN c.value.claims = PublicFields \cup {"iat", "exp"}
              /\ Identity(c.value.claims) = Identity(entry)
              /\ \A f \in PublicFields : c.value.claims[f] # entry.password
              /\ c.value.sig.over = c.value.claims

\* C26's case: the directory's pair logged in, and the password it sent is
\* the entry's.
C26_Witness ==
  /\ last.op = "login"
  /\ last.resp.status = 200
  /\ BodyPassword(last.body) = JSString(mockUsers[issued.entry].password)
  /\ last.resp.setCookie # {}

\* C27, as claimed: once the mount effect or a call of the context has
\* completed, whatever the stored item held, isAuthenticated is true exactly
\* when user is not absent.
C27_AuthenticatedIffUser ==
  (phase = "ready") => (isAuthenticated <=> user # JSNull)

\* C28, as claimed: whenever the context reports isAuthenticated with a
\* user, an identity lookup sent by the same browser at that moment is
\* answered 200 with the same email, name and role.
C28_ClientServerAgree ==
  (phase = "ready" /\ isAuthenticated)
  => LET resp == MeGET(RequestCookies(jar, now), env, now)
     IN  /\ resp.status = 200
         /\ Property(user, "email") = JSString(resp.body.user.email)
         /\ Property(user, "name") = JSString(resp.body.user.name)
         /\ Property(user, "role") = JSString(resp.body.user.role)

\* C29, as claimed: when the latest login() of the context and the latest
\* request to the Login handler carried the same email and password, one
\* was accepted exactly when the other was, and an accepted pair gave the
\* same id, email, name and role on both sides.
C29_SamePairsAccepted ==
  (/\ clientLast.op = "login"
   /\ last.op = "login"
   /\ last.body.t = "object"
   /\ BodyEmail(last.body) = JSString(clientLast.email)
   /\ BodyPassword(last.body) = JSString(clientLast.password))
  => /\ ~clientLast.threw <=> last.resp.status = 200
     /\ (last.resp.status = 200)
        => \A f \in PublicFields :
             Property(user, f) = JSString(last.resp.body.user[f])

\* C30: Login, Logout and the lookup use one cookie name; and a lookup by
\* the browser is answered 200, with the identity of the entry that logged
\* in, exactly when the browser's latest successful Login has no Logout
\* after it and was made less than 24 hours before; otherwise 401.
C30_JarDecidesLookup ==
  /\ LoginCookieName = AuthCookieName
  /\ LogoutCookieName = AuthCookieName
  /\ (last.op = "me" /\ last.from = "browser")
     => LET live == /\ issued.present
                    /\ ~issued.loggedOutSince
                    /\ last.at < issued.token.claims.iat + 86400
        IN  /\ last.resp.status = IF live THEN 200 ELSE 401
            /\ live => Identity(last.resp.body.user) = Identity(mockUsers[issued.entry])

\* C30's case: 24 hours after its Login the browser, never logged out, asks
\* who it is and is answered 401.
C30_Witness ==
  /\ last.op = "me"
  /\ last.from = "browser"
  /\ issued.present
  /\ ~issued.loggedOutSince
  /\ last.at = issued.token.claims.iat + 86400
  /\ last.resp.status = 401

\* C31: a mount effect that runs after a reload that followed an accepted
\* login() ends with isAuthenticated true and the user that login() set and
\* stored; one that runs after a reload that followed a logout() ends with
\* user absent and isAuthenticated false.
C31_SessionSurvivesRemount ==
  /\ (clientLast.op = "hydrate" /\ written.by = "login")
     => /\ ~clientLast.threw
        /\ isAuthenticated
        /\ user = written.user
        /\ ~isLoading
  /\ (clientLast.op = "hydrate" /\ written.by = "logout")
     => /\ ~clientLast.threw
        /\ ~isAuthenticated
        /\ user = JSNull
        /\ ~isLoading

\* C31's case: the provider was remounted after an accepted login() and
\* restored the demo user from what login() stored.
C31_Witness ==
  /\ clientLast.op = "hydrate"
  /\ written = [by |-> "login", user |-> DemoUser]
  /\ clientLast.read = Item(JSONStringify(DemoUser))
  /\ user = DemoUser
  /\ isAuthenticated

\* C31's other case: the provider was remounted after a logout() and found
\* no session.
C31_LoggedOutRemount ==
  /\ clientLast.op = "hydrate"
  /\ written.by = "logout"
  /\ clientLast.read = NoItem
  /\ user = JSNull

\* loading and authenticated after one call of a state setter.
ApplyCall(s, call) ==
  IF call = "setIsLoading(true)" THEN [s EXCEPT !.isLoading = TRUE]
  ELSE IF call = "setIsLoading(false)" THEN [s EXCEPT !.isLoading = FALSE]
  ELSE IF call = "setIsAuthenticated(true)" THEN [s EXCEPT !.isAuthenticated = TRUE]
  ELSE IF call = "setIsAuthenticated(false)" THEN [s EXCEPT !.isAuthenticated = FALSE]
  ELSE s

\* The states a consumer could observe if every setter call of `calls`,
\* made in order from state `s`, were rendered on its own.
RECURSIVE ObservedStates(_, _)
ObservedStates(s, calls) ==
  IF calls = <<>> THEN {}
  ELSE LET t == ApplyCall(s, Head(calls)) IN {t} \cup ObservedStates(t, Tail(calls))

\* C32: from the mount to the mount effect, loading is true and the guard
\* has asked for no navigation; and when the mount effect restores a stored
\* session, no order of rendering its setter calls shows the guard loading
\* false with authenticated false, the guard has asked for no navigation
\* after it, and on the dashboard it shows the children.
C32_NoRedirectAtStartup ==
  /\ (phase = "mounted") => (isLoading /\ nav = NoNav)
  /\ (clientLast.op = "hydrate" /\ boot = "restored")
     => /\ \A s \in ObservedStates(InitialAuthState, clientLast.calls) :
             s.isLoading \/ s.isAuthenticated
        /\ "guard" \notin nav.by
        /\ (route = "/dashboard") => view = "children"

\* C32's case: the provider mounted on the dashboard with the demo user
\* stored, restored it, and the guard shows the children with no navigation
\* pending.
C32_Witness ==
  /\ clientLast.op = "hydrate"
  /\ clientLast.read = Item(JSONStringify(DemoUser))
  /\ boot = "restored"
  /\ route = "/dashboard"
  /\ view = "children"
  /\ nav = NoNav

====
